---- MODULE Spec2Model ----
(***************************************************************************)
(* pharos-exporter: the Chain Poller (BlockTracker.Start), the Log         *)
(* Follower (LogTailer.Start with LogMetrics.Update) and the Supervisor    *)
(* (runStart, an errgroup of four tasks), each as a state machine.         *)
(*                                                                         *)
(* Strings are sequences of one-character strings.  A log file is a        *)
(* sequence of bytes; the two markers "Propose, seq:" and "endorse seq "   *)
(* are two bytes long each so that a read can split them.  Block heights   *)
(* are naturals: the tip values used stay far below 2^64.                  *)
(***************************************************************************)
EXTENDS Integers, Sequences, FiniteSets, TLC

VARIABLES
    \* ---- shared lifetime -------------------------------------------------
    cancelled,          \* gctx.Done() is closed
    now,                \* wall clock, Unix seconds (time.Now().Unix())
    \* ---- Chain Poller (BlockTracker) -------------------------------------
    tracker,            \* the *BlockTracker NewBlockTracker returned: cfg, normalizedKey, address
    ppc,                \* position of BlockTracker.Start
    perr,               \* what BlockTracker.Start returned
    keyAt,              \* heights whose block proof lists the tracked key
    lastChecked,        \* the cursor
    latest,             \* the tip read at this tick
    h,                  \* loop variable of the catch-up pass
    VoteInclusionTotal,
    VoteInclusionTimestamp,
    ActiveTotal,
    ActiveTimestamp,
    AddressBalanceETH,  \* the balance gauge; "unset" until first Set
    plog,               \* history of the poller: fetches issued per height, the pass in progress
    \* ---- the log file and its producer ----------------------------------
    pathIno,            \* inode of the file at cfg.Path, 0 when the path does not exist
    files,              \* files[i]: the bytes of the file with inode i
    producer,           \* the lines the producer writes, and whether it writes them in parts
    pending,            \* rest of the line the producer has written in part
    written,            \* lines the producer has started
    \* ---- Log Follower (LogTailer, LogMetrics) ----------------------------
    tcfg,               \* LogTailerConfig: FromStart, CheckPropose, CheckEndorse
    tpc,                \* position of LogTailer.Start
    terr,               \* what LogTailer.Start returned
    tfile,              \* t.file: inode of the open handle, 0 for nil
    tpos,               \* read position of the handle in its file
    tbuf,               \* t.reader: bytes read from the file and not yet returned
    tinode,             \* t.inode
    toffset,            \* t.offset
    ProposeTotal,
    LastProposeTimestamp,
    EndorseTotal,
    LastEndorseTimestamp,
    tlog,               \* history of the follower: the last line given to Update and its effect
    \* ---- Supervisor (runStart and its errgroup) --------------------------
    sargs,              \* the flags runStart parsed
    spc,                \* position of runStart
    sret,               \* what runStart returned
    signalled,          \* SIGINT or SIGTERM has arrived
    task,               \* per task of the group: "idle", "running", or what it returned
    gerr,               \* g.err, the error g.Wait returns; "none" for nil
    server,             \* the http.Server: "new", "serving", "closed"
    slog,               \* history of the group: the tasks' returns, in order
    nbody,              \* normalization: the key, as plain lower-case hex, or NoKey
    nkey,               \* normalization: the text given to normalizeBlsKey
    nres                \* normalization: the results of its successive applications

pvars == <<tracker, ppc, perr, keyAt, lastChecked, latest, h, VoteInclusionTotal,
           VoteInclusionTimestamp, ActiveTotal, ActiveTimestamp, AddressBalanceETH, plog>>

fsvars == <<pathIno, files, producer, pending, written>>

metrics == <<ProposeTotal, LastProposeTimestamp, EndorseTotal, LastEndorseTimestamp>>

tvars == <<tcfg, tpc, terr, tfile, tpos, tbuf, tinode, toffset, metrics, tlog>>

shared == <<cancelled, now>>

svars == <<sargs, spc, sret, signalled, task, gerr, server, slog>>

nvars == <<nbody, nkey, nres>>

vars == <<shared, pvars, fsvars, tvars, svars, nvars>>

(***************************************************************************)
(* Bounds of the model.                                                    *)
(***************************************************************************)
MaxTip == 3
MaxNow == 2
MaxLines == 2
MaxFiles == 2

(***************************************************************************)
(* Strings.                                                                *)
(***************************************************************************)
Rep(c, n) == [i \in 1..n |-> c]

ToLowerChar(c) ==
    CASE c = "A" -> "a" [] c = "B" -> "b" [] c = "F" -> "f" [] c = "X" -> "x"
      [] OTHER -> c

ToLower(s) == [i \in 1..Len(s) |-> ToLowerChar(s[i])]

RECURSIVE TrimLeft(_)
TrimLeft(s) == IF s # <<>> /\ Head(s) = " " THEN TrimLeft(Tail(s)) ELSE s

RECURSIVE TrimRight(_)
TrimRight(s) ==
    IF s # <<>> /\ s[Len(s)] = " " THEN TrimRight(SubSeq(s, 1, Len(s) - 1)) ELSE s

TrimSpace(s) == TrimRight(TrimLeft(s))

HasPrefix(s, p) == Len(s) >= Len(p) /\ SubSeq(s, 1, Len(p)) = p

trim0x(s) ==
    IF HasPrefix(s, <<"0", "x">>) \/ HasPrefix(s, <<"0", "X">>)
    THEN SubSeq(s, 3, Len(s))
    ELSE s

KeyHexLen == 96

\* A normalization that keeps the case of the text.
normalizeBlsKeyCased(s) ==
    LET t == trim0x(TrimSpace(s))
    IN  IF Len(t) > KeyHexLen /\ Len(t) % 2 = 0
        THEN SubSeq(t, Len(t) - KeyHexLen + 1, Len(t))
        ELSE t

\* part_005:312-318
normalizeBlsKey(s) ==
    LET t == ToLower(trim0x(TrimSpace(s)))
    IN  IF Len(t) > KeyHexLen /\ Len(t) % 2 = 0
        THEN SubSeq(t, Len(t) - KeyHexLen + 1, Len(t))
        ELSE t

(***************************************************************************)
(* The chain as the RPC endpoint reports it.                               *)
(***************************************************************************)
Heights == 0..MaxTip

TrackedBody == Rep("a", KeyHexLen)
OtherKey == <<"0", "x">> \o Rep("b", KeyHexLen)

\* The tracked key as the -my-bls-key flag may give it.
MyBlsKeyInputs == { <<"0", "x">> \o TrackedBody,
                    <<" ", "0", "X">> \o Rep("A", KeyHexLen) \o <<" ">> }

\* debug_getBlockProof's signedBlsKeys for a height: with the tracked key in one of
\* its textual encodings when the height is in keyAt, without it otherwise.
SignedBlsKeys(height) ==
    IF height \in keyAt
    THEN CASE height % 3 = 0 -> <<OtherKey, <<"0", "X">> \o Rep("A", KeyHexLen)>>
           [] height % 3 = 1 -> <<TrackedBody, OtherKey, TrackedBody>>
           [] OTHER -> << <<"0", "x", "f", "f">> \o TrackedBody >>
    ELSE CASE height % 2 = 0 -> <<OtherKey, <<"f">> \o TrackedBody>>
           [] OTHER -> <<>>

\* debug_getValidatorInfo's validatorSet for a height, as its list of blsKey: the
\* tracked key is a member at height 1 and at the heights just above one of keyAt.
ValidatorSet(height) ==
    IF height = 1 \/ height - 1 \in keyAt
    THEN <<OtherKey, <<"0", "X">> \o Rep("A", KeyHexLen), OtherKey>>
    ELSE IF height % 2 = 0 THEN <<OtherKey>> ELSE <<>>

\* A membership test that compares the keys as the RPC spells them.
ContainsAsSpelled(keys, key) == \E i \in 1..Len(keys) : keys[i] = key

\* A membership test that takes an empty list for a list with the key.
ContainsOrEmpty(keys, key) ==
    keys = <<>> \/ \E i \in 1..Len(keys) : normalizeBlsKey(keys[i]) = key

\* part_005:147-153, 166-171: is a key with this normalized form in the list?
Contains(keys, key) == \E i \in 1..Len(keys) : normalizeBlsKey(keys[i]) = key

\* eth_getBalance results, already converted to ETH.
Balances == {0, 1}

(***************************************************************************)
(* NewBlockTracker: validation of the configuration, then the tracker.     *)
(***************************************************************************)
AddrLen == 42

NewBlockTracker(cfg) ==
    LET addr == TrimSpace(cfg.MyAddress)
        addrLower == ToLower(addr)
    IN  IF cfg.RPCURL = <<>>
        THEN [err |-> "rpc url is required"]
        ELSE IF cfg.CheckBlockProof /\ TrimSpace(cfg.MyBlsKey) = <<>>
        THEN [err |-> "my bls key is required when check block proof is enabled"]
        ELSE IF addr # <<>> /\ (~HasPrefix(addrLower, <<"0", "x">>) \/ Len(addrLower) # AddrLen)
        THEN [err |-> "invalid my-address: expected 0x + 40 hex chars"]
        ELSE [err |-> "nil",
              cfg |-> cfg,
              normalizedKey |-> normalizeBlsKey(cfg.MyBlsKey),
              address |-> IF addr # <<>> THEN addrLower ELSE addr]

\* Configurations the flags can give (cmd/start.go), kept to those that differ in
\* what the poller does.
RPCURL == <<"h">>
AddressInputs == { <<>>, <<"0", "X">> \o Rep("A", AddrLen - 2) }

TrackerConfigs ==
    { c \in [RPCURL : {RPCURL}, MyBlsKey : MyBlsKeyInputs, MyAddress : AddressInputs,
             CheckBlockProof : BOOLEAN, CheckValidatorSet : BOOLEAN] :
        (c.MyAddress = <<>>) = HasPrefix(c.MyBlsKey, <<"0", "x">>) }

(***************************************************************************)
(* The Chain Poller: BlockTracker.Start, one action per statement group.   *)
(***************************************************************************)
NoHeights == [x \in Heights |-> 0]

\* part_005:64-94: a tracker that NewBlockTracker returned without error.
PConstructed ==
    /\ tracker \in { NewBlockTracker(c) : c \in TrackerConfigs }
    /\ tracker.err = "nil"

\* The tracker before Start has run a statement.
PFresh ==
    /\ ppc = "start"
    /\ perr = "running"
    /\ keyAt \in SUBSET (1..(MaxTip - 1))
    /\ lastChecked = 0
    /\ latest = 0
    /\ h = 0
    /\ VoteInclusionTotal = 0
    /\ VoteInclusionTimestamp = 0
    /\ ActiveTotal = 0
    /\ ActiveTimestamp = 0
    /\ AddressBalanceETH = <<>>
    /\ plog = [bp |-> NoHeights, vs |-> NoHeights, passFrom |-> 0, passVotes |-> 0,
               startTip |-> 0, bal |-> 0, lateTips |-> 0, latePasses |-> 0]

PInit == PConstructed /\ PFresh

\* A failure that is noted and followed by the next tip query.
PReturnAndRetry(e) == ppc' = "tip" /\ perr' = e

PReturn(e) == ppc' = "done" /\ perr' = e

\* A cursor that starts on the tip itself.
StartCursorAtTip(tip) == tip

\* part_005:101-107: the tip at startup, minus one unless it is 0.
StartCursor(tip) == IF tip > 0 THEN tip - 1 ELSE tip

\* part_005:97-108: the first tip query and the cursor it gives.
PStartup ==
    /\ ppc = "start"
    /\ \/ \E tip \in Heights :
            /\ lastChecked' = StartCursor(tip)
            /\ plog' = [plog EXCEPT !.startTip = tip]
            /\ ppc' = "tip"
            /\ UNCHANGED perr
       \/ PReturn("fetch latest block number failed") /\ UNCHANGED <<lastChecked, plog>>
    /\ UNCHANGED <<tracker, keyAt, latest, h, VoteInclusionTotal, VoteInclusionTimestamp,
                   ActiveTotal, ActiveTimestamp, AddressBalanceETH, shared, svars, nvars, fsvars, tvars>>

\* part_005:114-121: the tip query that opens a tick.
PFetchTip ==
    /\ ppc = "tip"
    /\ \/ /\ \E tip \in Heights : latest' = tip
          /\ plog' = [plog EXCEPT !.bal = 0,
                                   !.lateTips = @ + (IF cancelled THEN 1 ELSE 0)]
          /\ ppc' = "balance"
          /\ UNCHANGED perr
       \/ PReturn("fetch latest block number failed") /\ UNCHANGED <<latest, plog>>
    /\ UNCHANGED <<tracker, keyAt, lastChecked, h, VoteInclusionTotal,
                   VoteInclusionTimestamp, ActiveTotal, ActiveTimestamp, AddressBalanceETH,
                   shared, svars, nvars, fsvars, tvars>>

\* A branch that scans whenever the tip differs from the cursor.
PBranchOnChange ==
    IF latest = lastChecked
    THEN ppc' = "idle" /\ UNCHANGED h
    ELSE ppc' = "proof" /\ h' = (IF latest > lastChecked THEN lastChecked + 1 ELSE latest)

\* part_005:132-139: after the balance, sleep when there is nothing new, else enter
\* the pass at lastChecked + 1.
PBranch ==
    IF latest <= lastChecked
    THEN ppc' = "idle" /\ UNCHANGED h
    ELSE ppc' = "proof" /\ h' = lastChecked + 1

\* The pass in progress, for the history: where it started and the votes before it.
PassLog(l) ==
    IF latest <= lastChecked
    THEN l
    ELSE [l EXCEPT !.passFrom = lastChecked, !.passVotes = VoteInclusionTotal]

\* A tracker that asks for the balance whether or not an address was given.
HasAddressAlways == TRUE

\* part_005:124: an address was configured.
HasAddress == tracker.address # <<>>

\* part_005:124-139: the balance refresh of the tick, then the branch.
PBalance ==
    /\ ppc = "balance"
    /\ IF HasAddress
       THEN \E ok \in BOOLEAN :
              IF ok
              THEN /\ \E eth \in Balances :
                        AddressBalanceETH' = <<ToLower(tracker.address), eth>>
                   /\ PBranch
                   /\ plog' = PassLog([plog EXCEPT !.bal = @ + 1])
                   /\ UNCHANGED perr
              ELSE /\ PReturn("fetch balance failed")
                   /\ plog' = [plog EXCEPT !.bal = @ + 1]
                   /\ UNCHANGED <<AddressBalanceETH, h>>
       ELSE PBranch /\ plog' = PassLog(plog) /\ UNCHANGED <<AddressBalanceETH, perr>>
    /\ UNCHANGED <<tracker, keyAt, lastChecked, latest, VoteInclusionTotal,
                   VoteInclusionTimestamp, ActiveTotal, ActiveTimestamp, shared, svars, nvars, fsvars, tvars>>

\* sleepWithContext (part_005:187-199): the poll interval is positive after
\* NewBlockTracker, so the select waits for the timer or for ctx.Done().
\* A sleep that no cancellation ends.
SleepUninterruptible == FALSE

\* The timer of the select fires while the context is live; with the context
\* done, whether before the call or during the wait, the select takes ctx.Done().
SleepWoken == ~cancelled
SleepCancelled == cancelled

\* part_005:132-137: the idle wait.
PIdleSleep ==
    /\ ppc = "idle"
    /\ \/ SleepWoken /\ ppc' = "tip" /\ UNCHANGED perr
       \/ SleepCancelled /\ PReturn("context canceled")
    /\ UNCHANGED <<tracker, keyAt, lastChecked, latest, h, VoteInclusionTotal,
                   VoteInclusionTimestamp, ActiveTotal, ActiveTimestamp, AddressBalanceETH,
                   plog, shared, svars, nvars, fsvars, tvars>>

\* part_005:142-159: the block-proof check of height h.
PBlockProof ==
    /\ ppc = "proof"
    /\ IF tracker.cfg.CheckBlockProof
       THEN /\ plog' = [plog EXCEPT !.bp[h] = @ + 1]
            /\ \E ok \in BOOLEAN :
                 IF ok
                 THEN /\ IF Contains(SignedBlsKeys(h), tracker.normalizedKey)
                         THEN /\ VoteInclusionTotal' = VoteInclusionTotal + 1
                              /\ VoteInclusionTimestamp' = now
                         ELSE UNCHANGED <<VoteInclusionTotal, VoteInclusionTimestamp>>
                      /\ ppc' = "validators"
                      /\ UNCHANGED perr
                 ELSE /\ PReturn("fetch block proof failed")
                      /\ UNCHANGED <<VoteInclusionTotal, VoteInclusionTimestamp>>
       ELSE /\ ppc' = "validators"
            /\ UNCHANGED <<plog, perr, VoteInclusionTotal, VoteInclusionTimestamp>>
    /\ UNCHANGED <<tracker, keyAt, lastChecked, latest, h, ActiveTotal, ActiveTimestamp,
                   AddressBalanceETH, shared, svars, nvars, fsvars, tvars>>

\* A loop that steps over every other height.
PNextHeightSkipping ==
    /\ h' = h + 2
    /\ ppc' = IF h + 2 <= latest THEN "proof" ELSE "advance"

\* part_005:139: h++ and the loop test.
PNextHeight ==
    /\ h' = h + 1
    /\ ppc' = IF h + 1 <= latest THEN "proof" ELSE "advance"

\* part_005:161-178: the validator-set check of height h, then the next height.
PValidators ==
    /\ ppc = "validators"
    /\ IF tracker.cfg.CheckValidatorSet
       THEN /\ plog' = [plog EXCEPT !.vs[h] = @ + 1]
            /\ \E ok \in BOOLEAN :
                 IF ok
                 THEN /\ IF Contains(ValidatorSet(h), tracker.normalizedKey)
                           THEN /\ ActiveTotal' = ActiveTotal + 1
                                /\ ActiveTimestamp' = now
                           ELSE UNCHANGED <<ActiveTotal, ActiveTimestamp>>
                      /\ PNextHeight
                      /\ UNCHANGED perr
                 ELSE /\ PReturn("fetch validators failed")
                      /\ UNCHANGED <<ActiveTotal, ActiveTimestamp, h>>
       ELSE /\ PNextHeight
            /\ UNCHANGED <<plog, perr, ActiveTotal, ActiveTimestamp>>
    /\ UNCHANGED <<tracker, keyAt, lastChecked, latest, VoteInclusionTotal,
                   VoteInclusionTimestamp, AddressBalanceETH, shared, svars, nvars, fsvars, tvars>>

\* A cursor that stays one short of the tip it has scanned.
AdvanceCursorShort == latest - 1

\* part_005:179: the cursor moves to the tip of this tick.
AdvanceCursor == latest

\* An advance that goes straight to the next tip query.
PAdvanceNoSleep ==
    /\ ppc = "advance"
    /\ lastChecked' = AdvanceCursor
    /\ ppc' = "tip"
    /\ plog' = [plog EXCEPT !.latePasses = @ + (IF cancelled THEN 1 ELSE 0)]
    /\ UNCHANGED <<tracker, perr, keyAt, latest, h, VoteInclusionTotal,
                   VoteInclusionTimestamp, ActiveTotal, ActiveTimestamp, AddressBalanceETH,
                   shared, svars, nvars, fsvars, tvars>>

PAdvance ==
    /\ ppc = "advance"
    /\ lastChecked' = AdvanceCursor
    /\ ppc' = "sleep"
    /\ plog' = [plog EXCEPT !.latePasses = @ + (IF cancelled THEN 1 ELSE 0)]
    /\ UNCHANGED <<tracker, perr, keyAt, latest, h, VoteInclusionTotal,
                   VoteInclusionTimestamp, ActiveTotal, ActiveTimestamp, AddressBalanceETH,
                   shared, svars, nvars, fsvars, tvars>>

\* part_005:181-183: the sleep that follows every pass.
PPassSleep ==
    /\ ppc = "sleep"
    /\ \/ SleepWoken /\ ppc' = "tip" /\ UNCHANGED perr
       \/ SleepCancelled /\ PReturn("context canceled")
    /\ UNCHANGED <<tracker, keyAt, lastChecked, latest, h, VoteInclusionTotal,
                   VoteInclusionTimestamp, ActiveTotal, ActiveTimestamp, AddressBalanceETH,
                   plog, shared, svars, nvars, fsvars, tvars>>

(***************************************************************************)
(* The environment: the clock and the shutdown.  The chain is what each   *)
(* RPC call returns: any height for the tip, also a lower one.             *)
(***************************************************************************)
ClockTick ==
    /\ now < MaxNow
    /\ now' = now + 1
    /\ UNCHANGED <<cancelled, pvars, fsvars, tvars, svars, nvars>>

Cancel ==
    /\ ~cancelled
    /\ cancelled' = TRUE
    /\ UNCHANGED <<now, pvars, fsvars, tvars, svars, nvars>>

ProcessStart == 1

SharedInit == cancelled = FALSE /\ now = ProcessStart

(***************************************************************************)
(* Log lines.  A byte is a one-character token; NL is '\n'.  "Pa","Pb" is  *)
(* the marker "Propose, seq:" and "Ea","Eb" the marker "endorse seq ";     *)
(* "T1" and "T2" are RFC-3339 timestamps, "Z" is text that is none.        *)
(***************************************************************************)
NL == "NL"
ProposeMarker == <<"Pa", "Pb">>
EndorseMarker == <<"Ea", "Eb">>

\* The lines the consensus engine writes: with a timestamp, with one that does not
\* parse, with none, with both markers, with no marker.
LogLines ==
    { <<"[", "T1", "]">> \o ProposeMarker \o <<NL>>,
      <<"[", "T2", "]">> \o EndorseMarker \o <<NL>>,
      <<"[", "T2", "]">> \o EndorseMarker \o ProposeMarker \o <<NL>>,
      <<"[", "Z", "]">> \o ProposeMarker \o <<NL>>,
      EndorseMarker \o <<NL>>,
      <<"x", NL>> }

\* A producer that writes every kind of line, each with one write or with a
\* first write of two bytes.
AllLines == [lines |-> LogLines, cut |-> 2]

\* A producer whose writes may end anywhere in a line (a flush of its buffer).
Chunks == [lines |-> {ProposeMarker \o <<NL>>, <<"x", NL>>}, cut |-> 0]

\* A producer that writes each line with one write.
WholeLines == [lines |-> {ProposeMarker \o <<NL>>, EndorseMarker \o <<NL>>}, cut |-> 3]

\* A producer of lines that hold both markers, written whole or with a first
\* write that ends behind the first marker.
TwoMarkers == [lines |-> {EndorseMarker \o ProposeMarker \o <<NL>>}, cut |-> 2]

\* The lengths a first write of line l may have.
WriteCuts(l) == IF producer.cut = 0 THEN 1..Len(l) ELSE {producer.cut, Len(l)}

\* strings.Contains
StringsContains(s, sub) ==
    \E i \in 1..(Len(s) - Len(sub) + 1) : SubSeq(s, i, i + Len(sub) - 1) = sub

\* strings.IndexByte, 0-based, -1 when absent
IndexByte(s, c) ==
    IF \E i \in 1..Len(s) : s[i] = c
    THEN (CHOOSE i \in 1..Len(s) : s[i] = c /\ \A j \in 1..(i - 1) : s[j] # c) - 1
    ELSE -1

\* time.Parse(time.RFC3339Nano, s): the Unix seconds, or -1 for an error
ParseRFC3339(s) ==
    CASE s = <<"T1">> -> 1704067200
      [] s = <<"T2">> -> 1704067201
      [] OTHER -> -1

\* A timestamp parser that never reads the line.
parseLogTimestampClockOnly(line) == now

\* A timestamp parser whose fallback is the zero time.
parseLogTimestampZero(line) ==
    IF Len(line) >= 3 /\ line[1] = "[" /\ line[3] = "]" /\ ParseRFC3339(<<line[2]>>) >= 0
    THEN ParseRFC3339(<<line[2]>>)
    ELSE 0

\* log.go:193-206
parseLogTimestamp(line) ==
    IF Len(line) = 0 \/ line[1] # "["
    THEN now
    ELSE LET end == IndexByte(line, "]")
         IN  IF end <= 1
             THEN now
             ELSE IF ParseRFC3339(SubSeq(line, 2, end)) < 0
                  THEN now
                  ELSE ParseRFC3339(SubSeq(line, 2, end))

\* An extractor that tests the endorse flag only.
UpdateProposeUnflagged(line, m) ==
    LET ts == parseLogTimestamp(line)
    IN  IF StringsContains(line, ProposeMarker)
        THEN <<m[1] + 1, ts, m[3], m[4]>>
        ELSE IF StringsContains(line, EndorseMarker) /\ tcfg.CheckEndorse
        THEN <<m[1], m[2], m[3] + 1, ts>>
        ELSE m

\* log.go:171-191: the line's effect on the four metrics
\* <<ProposeTotal, LastProposeTimestamp, EndorseTotal, LastEndorseTimestamp>>.
Update(line, m) ==
    LET ts == parseLogTimestamp(line)
    IN  IF StringsContains(line, ProposeMarker)
        THEN IF ~tcfg.CheckPropose THEN m
             ELSE <<m[1] + 1, ts, m[3], m[4]>>
        ELSE IF StringsContains(line, EndorseMarker)
        THEN IF ~tcfg.CheckEndorse THEN m
             ELSE <<m[1], m[2], m[3] + 1, ts>>
        ELSE m

(***************************************************************************)
(* The file system at cfg.Path and the producer of the log.                *)
(***************************************************************************)
FsInit ==
    /\ producer \in {AllLines, Chunks, WholeLines, TwoMarkers}
    /\ pathIno = 0
    /\ files = <<>>
    /\ pending = <<>>
    /\ written = 0

\* The producer creates the file at the path.
CreateFile ==
    /\ pathIno = 0
    /\ Len(files) < MaxFiles
    /\ files' = Append(files, <<>>)
    /\ pathIno' = Len(files) + 1
    /\ UNCHANGED <<producer, pending, written, shared, svars, nvars, pvars, tvars>>

\* The producer writes a line, or only the first k bytes of it.
WriteLine ==
    /\ pathIno # 0
    /\ pending = <<>>
    /\ written < MaxLines
    /\ \E l \in producer.lines : \E k \in WriteCuts(l) :
         /\ files' = [files EXCEPT ![pathIno] = @ \o SubSeq(l, 1, k)]
         /\ pending' = SubSeq(l, k + 1, Len(l))
    /\ written' = written + 1
    /\ UNCHANGED <<pathIno, producer, shared, svars, nvars, pvars, tvars>>

\* The producer writes the rest of the line it began.
WriteRest ==
    /\ pathIno # 0
    /\ pending # <<>>
    /\ files' = [files EXCEPT ![pathIno] = @ \o pending]
    /\ pending' = <<>>
    /\ UNCHANGED <<pathIno, producer, written, shared, svars, nvars, pvars, tvars>>

\* Rotation, first step: the file is renamed away (consensus.log -> consensus.log.x).
RenameAway ==
    /\ pathIno # 0
    /\ pending = <<>>
    /\ Len(files) < MaxFiles
    /\ pathIno' = 0
    /\ UNCHANGED <<files, producer, pending, written, shared, svars, nvars, pvars, tvars>>

\* The follower holds an open handle on the file at the path.
HoldsThePath == tpc \in {"loop", "rotcheck", "sleep"} /\ tfile = pathIno

\* Rotation by copy-and-truncate: the file keeps its inode and loses its bytes.
\* The history notes a truncation of the file the follower has open.
Truncate ==
    /\ pathIno # 0
    /\ pending = <<>>
    /\ files[pathIno] # <<>>
    /\ files' = [files EXCEPT ![pathIno] = <<>>]
    /\ tlog' = [tlog EXCEPT !.cut = @ \/ HoldsThePath]
    /\ UNCHANGED <<pathIno, producer, pending, written, shared, svars, nvars, pvars,
                   tcfg, tpc, terr, tfile, tpos, tbuf, tinode, toffset, metrics>>

(***************************************************************************)
(* The Log Follower: LogTailer.Start, one action per statement group.      *)
(***************************************************************************)
TailerConfigs == [FromStart : BOOLEAN, CheckPropose : BOOLEAN, CheckEndorse : BOOLEAN]

NoLine == [line |-> <<>>, counted |-> FALSE, events |-> 0, rotated |-> FALSE,
           opened |-> 0, consumed |-> 0, cut |-> FALSE]

TInit ==
    /\ tcfg \in TailerConfigs
    /\ tpc = "open"
    /\ terr = "running"
    /\ tfile = 0
    /\ tpos = 0
    /\ tbuf = <<>>
    /\ tinode = 0
    /\ toffset = 0
    /\ ProposeTotal = 0
    /\ LastProposeTimestamp = 0
    /\ EndorseTotal = 0
    /\ LastEndorseTimestamp = 0
    /\ tlog = NoLine

\* log.go:155-161 with the deferred call of log.go:73
closeFile == tfile' = 0 /\ tbuf' = <<>>

TReturn(e) == tpc' = "done" /\ terr' = e /\ closeFile

\* An open that always starts at the first byte.
openFileAtStart(startAtEnd) ==
    /\ tfile' = pathIno
    /\ tbuf' = <<>>
    /\ tinode' = pathIno
    /\ toffset' = 0
    /\ tpos' = 0

\* log.go:127-153: the handle, the inode and the offset after a successful open
openFile(startAtEnd) ==
    /\ tfile' = pathIno
    /\ tbuf' = <<>>
    /\ tinode' = pathIno
    /\ toffset' = (IF startAtEnd THEN Len(files[pathIno]) ELSE 0)
    /\ tpos' = (IF startAtEnd THEN Len(files[pathIno]) ELSE 0)

\* An opening loop that returns the error of a missing file.
TOpenFailingOnAbsent ==
    /\ tpc = "open"
    /\ \/ /\ pathIno = 0
          /\ TReturn("no such file or directory")
          /\ UNCHANGED <<tpos, tinode, toffset, tlog>>
       \/ /\ pathIno # 0
          /\ openFile(~tcfg.FromStart)
          /\ tpc' = "loop"
          /\ tlog' = [tlog EXCEPT !.opened = Len(files[pathIno])]
          /\ UNCHANGED terr
       \/ /\ pathIno # 0
          /\ TReturn("open failed")
          /\ UNCHANGED <<tpos, tinode, toffset, tlog>>
    /\ UNCHANGED <<tcfg, metrics, shared, svars, nvars, pvars, fsvars>>

\* log.go:60-72: the opening loop; a missing file is waited for, any other
\* error of open or stat is returned.
TOpen ==
    /\ tpc = "open"
    /\ \/ /\ pathIno = 0
          /\ tpc' = "opensleep"
          /\ UNCHANGED <<terr, tfile, tpos, tbuf, tinode, toffset, tlog>>
       \/ /\ pathIno # 0
          /\ openFile(~tcfg.FromStart)
          /\ tpc' = "loop"
          /\ tlog' = [tlog EXCEPT !.opened = Len(files[pathIno])]
          /\ UNCHANGED terr
       \/ /\ pathIno # 0
          /\ TReturn("open failed")
          /\ UNCHANGED <<tpos, tinode, toffset, tlog>>
    /\ UNCHANGED <<tcfg, metrics, shared, svars, nvars, pvars, fsvars>>

\* log.go:64-67
TOpenSleep ==
    /\ tpc = "opensleep"
    /\ \/ SleepWoken /\ tpc' = "open" /\ UNCHANGED <<terr, tfile, tbuf>>
       \/ SleepCancelled /\ TReturn("context canceled")
    /\ UNCHANGED <<tcfg, tpos, tinode, toffset, metrics, tlog, shared, svars, nvars, pvars, fsvars>>

\* What the handle can still read: the buffered bytes, then the file from tpos on.
Readable == tbuf \o SubSeq(files[tfile], tpos + 1, Len(files[tfile]))

\* bufio.Reader.ReadBytes('\n'): the bytes up to and including the first newline,
\* or, when the stream ends before one, all the bytes there are, with io.EOF.
ReadBytes ==
    LET r == Readable
        n == IndexByte(r, NL)
    IN  IF n >= 0
        THEN [line |-> SubSeq(r, 1, n + 1), eof |-> FALSE]
        ELSE [line |-> r, eof |-> TRUE]

\* log.go:75-93: the cancellation test, one read, the line's event, the offset.
TRead ==
    /\ tpc = "loop"
    /\ \/ /\ cancelled
          /\ TReturn("context canceled")
          /\ UNCHANGED <<tpos, toffset, metrics, tlog>>
       \/ /\ ~cancelled
          /\ LET rd == ReadBytes
                 line == rd.line
                 all == Readable
                 m == Update(line, metrics)
             IN  /\ tbuf' = SubSeq(all, Len(line) + 1, Len(all))
                 /\ tpos' = IF Len(files[tfile]) > tpos THEN Len(files[tfile]) ELSE tpos
                 /\ IF Len(line) > 0
                    THEN /\ ProposeTotal' = m[1]
                         /\ LastProposeTimestamp' = m[2]
                         /\ EndorseTotal' = m[3]
                         /\ LastEndorseTimestamp' = m[4]
                         /\ toffset' = toffset + Len(line)
                         /\ tlog' = [tlog EXCEPT
                                       !.line = line,
                                       !.counted = (m # metrics),
                                       !.events = @ + (IF m # metrics THEN 1 ELSE 0),
                                       !.consumed = @ + Len(line)]
                    ELSE UNCHANGED <<metrics, toffset, tlog>>
                 /\ tpc' = IF rd.eof THEN "rotcheck" ELSE "loop"
          /\ UNCHANGED <<terr, tfile>>
       \/ /\ ~cancelled
          /\ TReturn("read failed")
          /\ UNCHANGED <<tpos, toffset, metrics, tlog>>
    /\ UNCHANGED <<tcfg, tinode, shared, svars, nvars, pvars, fsvars>>

\* A rotation test that looks at the inode only.
RotatedByInode == pathIno # tinode

\* log.go:117: the test of reopenIfRotated
Rotated == pathIno # tinode \/ Len(files[pathIno]) < toffset

\* log.go:95-98, 108-118: os.Stat of the path after end-of-stream.  Every error
\* of Stat, "not found" included, is returned by Start.
TStat ==
    /\ tpc = "rotcheck"
    /\ \/ /\ pathIno = 0
          /\ TReturn("no such file or directory")
       \/ /\ pathIno # 0
          /\ TReturn("stat failed")
       \/ /\ pathIno # 0
          /\ IF Rotated
             THEN closeFile /\ tpc' = "reopen"
             ELSE tpc' = "sleep" /\ UNCHANGED <<tfile, tbuf>>
          /\ UNCHANGED terr
    /\ UNCHANGED <<tcfg, tpos, tinode, toffset, metrics, tlog, shared, svars, nvars, pvars, fsvars>>

\* A reopen that keeps the offset it had in the old file.
TReopenKeepingOffset ==
    /\ tpc = "reopen"
    /\ \/ /\ pathIno = 0
          /\ TReturn("no such file or directory")
          /\ UNCHANGED <<tpos, tinode, toffset, tlog>>
       \/ /\ pathIno # 0
          /\ tfile' = pathIno /\ tbuf' = <<>> /\ tinode' = pathIno
          /\ tpos' = 0
          /\ tpc' = "loop"
          /\ tlog' = [tlog EXCEPT !.events = 0, !.rotated = TRUE, !.consumed = 0, !.cut = FALSE]
          /\ UNCHANGED <<terr, toffset>>
    /\ UNCHANGED <<tcfg, metrics, shared, svars, nvars, pvars, fsvars>>

\* log.go:119-122: the reopen at offset 0; an error of open is returned by Start.
TReopen ==
    /\ tpc = "reopen"
    /\ \/ /\ pathIno = 0
          /\ TReturn("no such file or directory")
          /\ UNCHANGED <<tpos, tinode, toffset, tlog>>
       \/ /\ pathIno # 0
          /\ openFile(FALSE)
          /\ tpc' = "loop"
          /\ tlog' = [tlog EXCEPT !.events = 0, !.rotated = TRUE, !.consumed = 0, !.cut = FALSE]
          /\ UNCHANGED terr
    /\ UNCHANGED <<tcfg, metrics, shared, svars, nvars, pvars, fsvars>>

\* log.go:102-104
TSleep ==
    /\ tpc = "sleep"
    /\ \/ SleepWoken /\ tpc' = "loop" /\ UNCHANGED <<terr, tfile, tbuf>>
       \/ SleepCancelled /\ TReturn("context canceled")
    /\ UNCHANGED <<tcfg, tpos, tinode, toffset, metrics, tlog, shared, svars, nvars, pvars, fsvars>>

(***************************************************************************)
(* The Supervisor: runStart (cmd/start.go) and its errgroup.  The group's   *)
(* context gctx is the variable cancelled: the signal cancels it, the first *)
(* non-nil return of a task cancels it, and g.Wait cancels it.  An engine   *)
(* is seen here by what Start returns: one of its fatal errors at any time, *)
(* ctx.Err() once the context is cancelled.                                 *)
(***************************************************************************)
Tasks == {"tracker", "tailer", "listener", "shutdown"}

Engines == {"tracker", "tailer"}

Canceled == "context canceled"

\* The -my-address flag: absent, well formed, without the 0x prefix, one character
\* short, and of the right length with characters that are no hex digits.
MyAddressFlags ==
    { <<>>,
      <<"0", "X">> \o Rep("A", AddrLen - 2),
      Rep("a", AddrLen),
      <<"0", "x">> \o Rep("a", AddrLen - 3),
      <<"0", "x">> \o Rep("g", AddrLen - 2) }

\* runStart's flags (part_001:26-34) that decide how it goes on.
StartArgs == [LogPath : {<<>>, <<"p">>}, RPCURL : {<<>>, RPCURL},
              MyBlsKey : {<<>>} \cup MyBlsKeyInputs, MyAddress : MyAddressFlags,
              CheckBlockProof : BOOLEAN]

\* part_001:52-59
TrackerConfigOf(a) ==
    [RPCURL |-> a.RPCURL, MyBlsKey |-> a.MyBlsKey, MyAddress |-> a.MyAddress,
     CheckBlockProof |-> a.CheckBlockProof, CheckValidatorSet |-> TRUE]

\* log.go:37-53
NewLogTailer(path) == IF path = <<>> THEN "log path is required" ELSE "nil"

NotConstructed == [err |-> "not constructed"]

SvInit ==
    /\ sargs \in StartArgs
    /\ spc = "flags"
    /\ sret = "running"
    /\ signalled = FALSE
    /\ task = [t \in Tasks |-> "idle"]
    /\ gerr = "none"
    /\ server = "new"
    /\ slog = <<>>

\* What BlockTracker.Start and LogTailer.Start can return besides ctx.Err().
TrackerErrors == {"fetch latest block number failed", "fetch balance failed",
                  "fetch block proof failed", "fetch validators failed"}

TailerErrors == {"open failed", "read failed", "stat failed", "no such file or directory"}

\* A runStart that does not look at the log path before it builds the engines.
SvFlagsUnchecked ==
    /\ spc = "flags"
    /\ spc' = "newtracker"
    /\ UNCHANGED <<nvars, sargs, sret, signalled, task, gerr, server, slog, shared, pvars, fsvars, tvars>>

\* A first error that every later one replaces.
GroupErrLast(e) == IF e # "nil" THEN e ELSE gerr

\* errgroup: g.err after a task returned e; errOnce keeps the first non-nil error.
GroupErr(e) == IF e # "nil" /\ gerr = "none" THEN e ELSE gerr

\* errgroup.Group.Go: the task's return is recorded, the first non-nil error is
\* kept and cancels the group's context.
Returned(t, e) ==
    /\ task' = [task EXCEPT ![t] = e]
    /\ gerr' = GroupErr(e)
    /\ cancelled' = (cancelled \/ e # "nil")
    /\ slog' = Append(slog, [task |-> t, err |-> e, signalled |-> signalled])

SvReturn(e) == spc' = "done" /\ sret' = e

\* cmd/start.go:34-39
SvFlags ==
    /\ spc = "flags"
    /\ IF sargs.LogPath = <<>>
       THEN SvReturn("log-path is required")
       ELSE spc' = "newtracker" /\ UNCHANGED sret
    /\ UNCHANGED <<nvars, sargs, signalled, task, gerr, server, slog, shared, pvars, fsvars, tvars>>

\* cmd/start.go:48-60: the tracker is built and its task started.
SvNewTracker ==
    /\ spc = "newtracker"
    /\ LET t == NewBlockTracker(TrackerConfigOf(sargs))
       IN  IF t.err # "nil"
           THEN SvReturn(t.err) /\ UNCHANGED <<tracker, task>>
           ELSE /\ tracker' = t
                /\ task' = [task EXCEPT !["tracker"] = "running"]
                /\ spc' = "newtailer"
                /\ UNCHANGED sret
    /\ UNCHANGED <<nvars, sargs, signalled, gerr, server, slog, shared, fsvars, tvars,
                   ppc, perr, keyAt, lastChecked, latest, h, VoteInclusionTotal,
                   VoteInclusionTimestamp, ActiveTotal, ActiveTimestamp, AddressBalanceETH,
                   plog>>

\* cmd/start.go:62-75: the tailer is built and its task started.
SvNewTailer ==
    /\ spc = "newtailer"
    /\ IF NewLogTailer(sargs.LogPath) # "nil"
       THEN SvReturn(NewLogTailer(sargs.LogPath)) /\ UNCHANGED task
       ELSE /\ task' = [task EXCEPT !["tailer"] = "running"]
            /\ spc' = "wait"
            /\ UNCHANGED sret
    /\ UNCHANGED <<nvars, sargs, signalled, gerr, server, slog, shared, pvars, fsvars, tvars>>

\* cmd/start.go:77-93: the listener task and the shutdown task are started once
\* the tailer's task is; they are idle until then.
Started(t) ==
    IF t \in Engines THEN task[t] # "idle" ELSE task["tailer"] # "idle"

Running(t) == Started(t) /\ task[t] \in {"idle", "running"}

\* cmd/start.go:58-60: tracker.Start(gctx) returns.
SvTracker ==
    /\ Running("tracker")
    /\ \E e \in TrackerErrors \cup {Canceled} :
         /\ e = Canceled => SleepCancelled
         /\ PReturn(e)
         /\ Returned("tracker", e)
    /\ UNCHANGED <<nvars, sargs, spc, sret, signalled, server, now, fsvars, tvars,
                   tracker, keyAt, lastChecked, latest, h, VoteInclusionTotal,
                   VoteInclusionTimestamp, ActiveTotal, ActiveTimestamp, AddressBalanceETH,
                   plog>>

\* cmd/start.go:73-75: tailer.Start(gctx) returns.
SvTailer ==
    /\ Running("tailer")
    /\ \E e \in TailerErrors \cup {Canceled} :
         /\ e = Canceled => cancelled
         /\ TReturn(e)
         /\ Returned("tailer", e)
    /\ UNCHANGED <<nvars, sargs, spc, sret, signalled, server, now, fsvars, pvars,
                   tcfg, tpos, tinode, toffset, metrics, tlog>>

\* cmd/start.go:82: ListenAndServe binds the port and serves, or fails; on a
\* server that was shut down it returns ErrServerClosed at once.
SvListen ==
    /\ Running("listener")
    /\ task["listener"] = "idle"
    /\ \/ /\ server = "new"
          /\ server' = "serving"
          /\ task' = [task EXCEPT !["listener"] = "running"]
          /\ UNCHANGED <<gerr, cancelled, slog>>
       \/ /\ server = "new"
          /\ Returned("listener", "listen failed")
          /\ UNCHANGED server
       \/ /\ server = "closed"
          /\ Returned("listener", "nil")
          /\ UNCHANGED server
    /\ UNCHANGED <<nvars, sargs, spc, sret, signalled, now, pvars, fsvars, tvars>>

\* cmd/start.go:82-86: ListenAndServe returns ErrServerClosed after Shutdown; the
\* task returns nil.
SvListenerClosed ==
    /\ task["listener"] = "running"
    /\ server = "closed"
    /\ Returned("listener", "nil")
    /\ UNCHANGED <<nvars, sargs, spc, sret, signalled, server, now, pvars, fsvars, tvars>>

\* cmd/start.go:88-93: after gctx is done, Shutdown closes the server and returns
\* nil, or its context's error when the five seconds run out first.
SvShutdown ==
    /\ Running("shutdown")
    /\ cancelled
    /\ server' = "closed"
    /\ \E e \in {"nil", "context deadline exceeded"} : Returned("shutdown", e)
    /\ UNCHANGED <<nvars, sargs, spc, sret, signalled, now, pvars, fsvars, tvars>>

\* A result that is g.Wait's error as it is.
WaitResultUnfiltered(e) == IF e = "none" THEN "nil" ELSE e

\* cmd/start.go:95-98: what runStart makes of g.Wait's error.
WaitResult(e) == IF e # "none" /\ e # Canceled THEN e ELSE "nil"

\* cmd/start.go:95-98: g.Wait returns when every task has returned.
SvWait ==
    /\ spc = "wait"
    /\ \A t \in Tasks : task[t] \notin {"idle", "running"}
    /\ cancelled' = TRUE
    /\ SvReturn(WaitResult(gerr))
    /\ UNCHANGED <<nvars, sargs, signalled, task, gerr, server, slog, now, pvars, fsvars, tvars>>

\* cmd/start.go:43: SIGINT or SIGTERM cancels ctx, and gctx with it.
Signal ==
    /\ spc # "done"
    /\ ~signalled
    /\ signalled' = TRUE
    /\ cancelled' = TRUE
    /\ UNCHANGED <<nvars, sargs, spc, sret, task, gerr, server, slog, now, pvars, fsvars, tvars>>

(***************************************************************************)
(* The normalizer on its own: normalizeBlsKey applied to a text, and again *)
(* to its own result.                                                      *)
(***************************************************************************)
MaxApply == 2
MaxText == 3

ToUpperChar(c) ==
    CASE c = "a" -> "A" [] c = "b" -> "B" [] c = "f" -> "F" [] c = "x" -> "X"
      [] OTHER -> c

ToUpper(s) == [i \in 1..Len(s) |-> ToUpperChar(s[i])]

\* Keys as plain lower-case hex: short ones, one of the key's length, and two
\* that are longer, of odd and of even length.
KeyBodies ==
    { <<"a", "b">>, <<"0", "1", "f">>, TrackedBody,
      <<"f">> \o TrackedBody, <<"f", "f">> \o TrackedBody }

\* The textual encodings of a key: with or without the prefix 0x or 0X, in lower
\* or upper case, with or without white space around it.
Spellings(body) ==
    { pad \o prefix \o b \o pad :
        pad \in {<<>>, <<" ">>},
        prefix \in {<<>>, <<"0", "x">>, <<"0", "X">>},
        b \in {body, ToUpper(body)} }

\* Every text of up to n characters over 0, x, a, A and the blank.
RECURSIVE Texts(_)
Texts(n) ==
    IF n = 0
    THEN {<<>>}
    ELSE Texts(n - 1) \cup
           { Append(t, c) : t \in { u \in Texts(n - 1) : Len(u) = n - 1 },
                            c \in {"0", "x", "a", "A", " "} }

\* Texts that are no encoding of a key: the short ones and a key with two prefixes.
OtherTexts == Texts(MaxText) \cup { <<"0", "x", "0", "x", "a", "b">> }

\* The text is no encoding of a key.
NoKey == <<"none">>

NIdle == nbody = NoKey /\ nkey = <<>> /\ nres = <<>>

NInit ==
    /\ nres = <<>>
    /\ \/ nbody \in KeyBodies /\ nkey \in Spellings(nbody)
       \/ nbody = NoKey /\ nkey \in OtherTexts

\* normalizeBlsKey applied to the text, then to its last result.
Normalize ==
    /\ Len(nres) < MaxApply
    /\ nres' = Append(nres, normalizeBlsKey(IF nres = <<>> THEN nkey ELSE nres[Len(nres)]))
    /\ UNCHANGED <<nbody, nkey, shared, pvars, fsvars, tvars, svars>>

(***************************************************************************)
(* Specifications.  Each engine is checked on its own: the other one rests *)
(* at its first state, as the two share nothing but the context.           *)
(***************************************************************************)
SvIdle ==
    /\ SvInit
    /\ sargs = [LogPath |-> <<"p">>, RPCURL |-> RPCURL, MyBlsKey |-> <<>>,
                MyAddress |-> <<>>, CheckBlockProof |-> FALSE]

PIdle ==
    /\ PInit
    /\ keyAt = {}
    /\ tracker.cfg.MyAddress = <<>>
    /\ tracker.cfg.CheckBlockProof /\ tracker.cfg.CheckValidatorSet

TIdle ==
    /\ TInit
    /\ tcfg.FromStart /\ tcfg.CheckPropose /\ tcfg.CheckEndorse

FsIdle == FsInit /\ producer = AllLines

PollerInit == SharedInit /\ PInit /\ FsIdle /\ TIdle /\ SvIdle /\ NIdle

PollerNext ==
    \/ PStartup \/ PFetchTip \/ PBalance \/ PIdleSleep \/ PBlockProof \/ PValidators
    \/ PAdvance \/ PPassSleep \/ ClockTick \/ Cancel

PollerSpec == PollerInit /\ [][PollerNext]_vars

\* The follower with a producer that writes in parts and rotates the file.
FollowerInit ==
    /\ SharedInit /\ PIdle /\ TInit /\ SvIdle /\ NIdle
    /\ FsInit /\ producer = Chunks
    /\ tcfg.CheckPropose /\ tcfg.CheckEndorse

FollowerNext ==
    \/ CreateFile \/ WriteLine \/ WriteRest \/ RenameAway \/ Truncate
    \/ TOpen \/ TOpenSleep \/ TRead \/ TStat \/ TReopen \/ TSleep
    \/ Cancel

FollowerSpec == FollowerInit /\ [][FollowerNext]_vars

\* The follower with a producer that writes whole lines and rotates the file,
\* under both settings of -log-from-start.
RotationInit ==
    /\ SharedInit /\ PIdle /\ TInit /\ SvIdle /\ NIdle
    /\ FsInit /\ producer = WholeLines
    /\ tcfg.CheckPropose /\ tcfg.CheckEndorse

RotationNext ==
    \/ CreateFile \/ WriteLine \/ RenameAway \/ Truncate
    \/ TOpen \/ TOpenSleep \/ TRead \/ TStat \/ TReopen \/ TSleep
    \/ Cancel

RotationSpec == RotationInit /\ [][RotationNext]_vars

\* The statements of LogTailer.Start and of BlockTracker.Start.
FollowerSteps == TOpen \/ TOpenSleep \/ TRead \/ TStat \/ TReopen \/ TSleep

PollerSteps ==
    \/ PStartup \/ PFetchTip \/ PBalance \/ PIdleSleep \/ PBlockProof \/ PValidators
    \/ PAdvance \/ PPassSleep

\* The follower as a task that is scheduled: a step of it that can be taken is
\* taken, so a call that is pending returns and a sleep ends.
FollowerFairInit == RotationInit /\ tcfg.FromStart

FollowerFairSpec ==
    /\ FollowerFairInit
    /\ [][RotationNext]_vars
    /\ WF_vars(FollowerSteps)

\* The statements of LogTailer.Start on a file that is not rotated.
LineSteps == TOpen \/ TOpenSleep \/ TRead \/ TStat \/ TSleep

\* Both engines as scheduled tasks under the shared context.  They share nothing
\* but the context, so each is followed from its start with the other one
\* already returned from its first call: the follower from a failed open, the
\* poller from a failed startup query.  The producer is followed while the
\* follower runs.
PollerReturned ==
    /\ PConstructed
    /\ tracker.cfg.MyAddress = <<>>
    /\ tracker.cfg.CheckBlockProof /\ tracker.cfg.CheckValidatorSet
    /\ ppc = "done" /\ perr = "fetch latest block number failed"
    /\ keyAt = {} /\ lastChecked = 0 /\ latest = 0 /\ h = 0
    /\ VoteInclusionTotal = 0 /\ VoteInclusionTimestamp = 0
    /\ ActiveTotal = 0 /\ ActiveTimestamp = 0
    /\ AddressBalanceETH = <<>>
    /\ plog = [bp |-> NoHeights, vs |-> NoHeights, passFrom |-> 0, passVotes |-> 0,
               startTip |-> 0, bal |-> 0, lateTips |-> 0, latePasses |-> 0]

FollowerReturned ==
    /\ tcfg \in TailerConfigs /\ tcfg.CheckPropose /\ tcfg.CheckEndorse /\ tcfg.FromStart
    /\ tpc = "done" /\ terr = "open failed"
    /\ tfile = 0 /\ tpos = 0 /\ tbuf = <<>> /\ tinode = 0 /\ toffset = 0
    /\ ProposeTotal = 0 /\ LastProposeTimestamp = 0
    /\ EndorseTotal = 0 /\ LastEndorseTimestamp = 0
    /\ tlog = NoLine
    /\ producer = WholeLines /\ pathIno = 1 /\ files = << <<>> >>
    /\ pending = <<>> /\ written = 0

TerminationInit ==
    /\ SharedInit /\ SvIdle /\ NIdle
    /\ \/ /\ PInit /\ keyAt = {}
          /\ tracker.cfg.CheckBlockProof /\ tracker.cfg.CheckValidatorSet
          /\ FollowerReturned
       \/ /\ PollerReturned
          /\ TInit /\ tcfg.CheckPropose /\ tcfg.CheckEndorse
          /\ FsInit /\ producer = WholeLines

TerminationNext ==
    \/ PollerSteps
    \/ LineSteps
    \/ tpc # "done" /\ (CreateFile \/ WriteLine)
    \/ Cancel

TerminationSpec ==
    /\ TerminationInit /\ [][TerminationNext]_vars
    /\ WF_vars(PollerSteps) /\ WF_vars(LineSteps)

\* The follower on one file with lines of every kind, under every setting of the
\* two check flags.
LinesInit ==
    /\ SharedInit /\ PIdle /\ TInit /\ SvIdle /\ NIdle
    /\ FsInit /\ producer = AllLines
    /\ tcfg.FromStart

LinesNext ==
    \/ CreateFile \/ WriteLine \/ WriteRest
    \/ TOpen \/ TOpenSleep \/ TRead \/ TStat \/ TSleep
    \/ ClockTick \/ Cancel

LinesSpec == LinesInit /\ [][LinesNext]_vars

\* The follower on one file of lines that hold both markers, under every setting
\* of its flags.
MarkersInit ==
    /\ SharedInit /\ PIdle /\ TInit /\ SvIdle /\ NIdle
    /\ FsInit /\ producer = TwoMarkers

MarkersSpec == MarkersInit /\ [][LinesNext]_vars

\* The follower on one file under both settings of -log-from-start, with both
\* checks on: the file may hold lines, and the beginning of one, before the
\* follower opens it.
StartPositionInit ==
    /\ SharedInit /\ PIdle /\ TInit /\ SvIdle /\ NIdle
    /\ FsInit /\ producer = AllLines
    /\ tcfg.CheckPropose /\ tcfg.CheckEndorse

StartPositionSpec == StartPositionInit /\ [][LinesNext]_vars

\* The normalizer applied to every text of NInit.
NormalizeInit == SharedInit /\ PIdle /\ FsIdle /\ TIdle /\ SvIdle /\ NInit

NormalizeNext == Normalize

NormalizeSpec == NormalizeInit /\ [][NormalizeNext]_vars

\* runStart with its four tasks.
SupervisorInit ==
    /\ SharedInit /\ FsIdle /\ TIdle /\ SvInit /\ NIdle
    /\ tracker = NotConstructed /\ PFresh /\ keyAt = {}

SupervisorNext ==
    \/ SvFlags \/ SvNewTracker \/ SvNewTailer
    \/ SvTracker \/ SvTailer \/ SvListen \/ SvListenerClosed \/ SvShutdown
    \/ SvWait \/ Signal

SupervisorSpec == SupervisorInit /\ [][SupervisorNext]_vars

(***************************************************************************)
(* Claims about the Chain Poller.                                          *)
(***************************************************************************)
Scanning == ppc \in {"proof", "validators"}

\* C1: no height is checked twice.  Each height's block-proof fetch and
\* validator-set fetch is issued at most once in a run, and a height that is
\* being checked lies above the cursor: once lastChecked >= x, x is never
\* fetched again, whatever tips the endpoint reports afterwards.
C1_AtMostOncePerHeight ==
    /\ \A x \in Heights : plog.bp[x] <= 1 /\ plog.vs[x] <= 1
    /\ Scanning => h > lastChecked

\* C1 witness: a later pass is checking a height while an earlier pass has
\* checked, and the cursor has passed, a lower one.
C1_SecondPassAfterAdvance ==
    /\ Scanning
    /\ \E x \in Heights : x <= lastChecked /\ plog.bp[x] = 1 /\ plog.vs[x] = 1
    /\ plog.bp[h] = 1

\* The heights of (from, to] whose block proof holds a key that normalizes to the
\* tracked key's normal form.
HeightsWithKey(from, to) ==
    { x \in (from + 1)..to :
        \E i \in 1..Len(SignedBlsKeys(x)) :
           normalizeBlsKey(SignedBlsKeys(x)[i]) = normalizeBlsKey(tracker.cfg.MyBlsKey) }

PassEnded == ppc = "sleep"

\* C2: when a catch-up pass that started at cursor c with tip L > c ends (every
\* fetch succeeded, block-proof checking on), the cursor is L and the
\* vote-inclusion counter has grown by the number of heights in (c, L] whose
\* block proof lists the tracked key in some spelling.
C2_PassCountsKeyHeights ==
    PassEnded /\ tracker.cfg.CheckBlockProof =>
        /\ lastChecked = latest
        /\ plog.passFrom < latest
        /\ VoteInclusionTotal - plog.passVotes
             = Cardinality(HeightsWithKey(plog.passFrom, latest))

\* C2 witness: a pass over three heights ended with the key at the middle one only.
C2_KeyAtOneHeightOfPass ==
    /\ PassEnded /\ tracker.cfg.CheckBlockProof
    /\ latest = plog.passFrom + 3
    /\ HeightsWithKey(plog.passFrom, latest) = {plog.passFrom + 2}
    /\ VoteInclusionTotal - plog.passVotes = 1
    /\ lastChecked = latest

(***************************************************************************)
(* Claims about the Log Follower.                                          *)
(***************************************************************************)
\* C6, C7 and C8 are about the lines given to LogMetrics.Update; that a line of the
\* file can reach Update in parts is the subject of C3.
\* This step gave a line to LogMetrics.Update (log.go:83-87); the line is tlog'.line.
Handed == tpc = "loop" /\ toffset' > toffset

EndsWithNewline(l) == l # <<>> /\ l[Len(l)] = NL

HasPropose(l) == \E i \in 1..(Len(l) - 1) : l[i] = "Pa" /\ l[i + 1] = "Pb"

HasEndorse(l) == \E i \in 1..(Len(l) - 1) : l[i] = "Ea" /\ l[i + 1] = "Eb"

\* The line starts with "[", a timestamp, "]".
WellFormedStamp(l) == Len(l) >= 3 /\ l[1] = "[" /\ l[2] \in {"T1", "T2"} /\ l[3] = "]"

StampSeconds(l) == IF l[2] = "T1" THEN 1704067200 ELSE 1704067201

ProposeMetrics == <<ProposeTotal, LastProposeTimestamp>>
EndorseMetrics == <<EndorseTotal, LastEndorseTimestamp>>

\* C3: bytes without a terminating newline produce no event: whenever the line
\* last given to the extractor changed a counter or gauge, it ended with its
\* newline.
C3_NoEventBeforeNewline == tlog.counted => EndsWithNewline(tlog.line)

\* The complete lines of a file, in order; bytes after the last newline are left out.
RECURSIVE CompleteLines(_)
CompleteLines(c) ==
    IF IndexByte(c, NL) < 0
    THEN <<>>
    ELSE <<SubSeq(c, 1, IndexByte(c, NL) + 1)>>
           \o CompleteLines(SubSeq(c, IndexByte(c, NL) + 2, Len(c)))

MarkerLineCount(c) ==
    Cardinality({ i \in 1..Len(CompleteLines(c)) :
                    HasPropose(CompleteLines(c)[i]) \/ HasEndorse(CompleteLines(c)[i]) })

\* The line is one of the producer's lines, whole.
CompleteLine(l) == l \in producer.lines

\* Every line the producer began is complete and still in the file it was written
\* to: no file was truncated after it was written to.
NothingTruncated ==
    /\ pending = <<>>
    /\ Cardinality({ p \in (DOMAIN files) \X (1..3 * MaxLines) :
                        p[2] <= Len(files[p[1]]) /\ files[p[1]][p[2]] = NL }) = written

\* The follower has read the file at the path, which it opened after a rotation,
\* to its end, and the file holds complete lines only.
CaughtUpAfterRotation ==
    /\ tlog.rotated
    /\ NothingTruncated
    /\ tpc = "sleep"
    /\ tfile = pathIno
    /\ toffset = Len(files[tfile])
    /\ pending = <<>>

\* C4: after a rotation the follower reads the new file from its first byte and
\* produces one event for every complete marker line written to it: once it has
\* caught up with the new file, the events it took from that file are as many as
\* the file's complete marker lines.
C4_EveryLineOfNewFile ==
    CaughtUpAfterRotation => tlog.events = MarkerLineCount(files[tfile])

\* C5: rotation is never fatal: LogTailer.Start never returns "not found".
C5_NotFoundNeverReturned == terr # "no such file or directory"

\* C6 as stated: with propose-checking off and endorse-checking on, a line with
\* the propose marker leaves the propose metrics alone, and every complete line
\* with the endorse marker, also one that has the propose marker too, adds one to
\* the endorse counter.
C6_EveryEndorseLineCounted ==
    [][ Handed /\ ~tcfg.CheckPropose /\ tcfg.CheckEndorse =>
          /\ HasPropose(tlog'.line) => ProposeMetrics' = ProposeMetrics
          /\ CompleteLine(tlog'.line) /\ HasEndorse(tlog'.line)
               => EndorseTotal' = EndorseTotal + 1 ]_vars

\* C6 amended: with propose-checking off and endorse-checking on, a line with the
\* propose marker changes no metric at all, and every line with the endorse
\* marker and without the propose marker adds exactly one to the endorse counter.
C6_EndorseOnlyLinesCounted ==
    [][ Handed /\ ~tcfg.CheckPropose /\ tcfg.CheckEndorse =>
          /\ HasPropose(tlog'.line) => metrics' = metrics
          /\ HasEndorse(tlog'.line) /\ ~HasPropose(tlog'.line)
               => EndorseTotal' = EndorseTotal + 1 /\ ProposeMetrics' = ProposeMetrics ]_vars

\* C6 witness: propose-checking off, an endorse line has been counted and then a
\* complete line with both markers was given to the extractor and ignored.
C6_BothMarkersIgnored ==
    /\ ~tcfg.CheckPropose /\ tcfg.CheckEndorse
    /\ HasPropose(tlog.line) /\ HasEndorse(tlog.line) /\ EndsWithNewline(tlog.line)
    /\ ~tlog.counted
    /\ EndorseTotal = 1 /\ ProposeTotal = 0

\* C7 as stated: with both checks on, a line with a well-formed timestamp and the
\* propose marker adds one to the propose counter and sets the last-propose gauge
\* to the timestamp; such a line with the endorse marker adds one to the endorse
\* counter and sets the last-endorse gauge to the timestamp; a line with neither
\* marker changes no metric.
C7_StampedLinesCounted ==
    [][ Handed /\ tcfg.CheckPropose /\ tcfg.CheckEndorse /\ CompleteLine(tlog'.line) =>
          /\ WellFormedStamp(tlog'.line) /\ HasPropose(tlog'.line)
               => ProposeMetrics' = <<ProposeTotal + 1, StampSeconds(tlog'.line)>>
          /\ WellFormedStamp(tlog'.line) /\ HasEndorse(tlog'.line)
               => EndorseMetrics' = <<EndorseTotal + 1, StampSeconds(tlog'.line)>>
          /\ ~HasPropose(tlog'.line) /\ ~HasEndorse(tlog'.line) => metrics' = metrics ]_vars

\* C7 amended: as stated, but the endorse metrics change only for a line that has
\* the endorse marker and not the propose marker; a line with both markers is a
\* propose line and leaves the endorse metrics alone.
C7_StampedLinesCountedOnce ==
    [][ Handed /\ tcfg.CheckPropose /\ tcfg.CheckEndorse =>
          /\ WellFormedStamp(tlog'.line) /\ HasPropose(tlog'.line)
               => /\ ProposeMetrics' = <<ProposeTotal + 1, StampSeconds(tlog'.line)>>
                  /\ EndorseMetrics' = EndorseMetrics
          /\ WellFormedStamp(tlog'.line) /\ HasEndorse(tlog'.line) /\ ~HasPropose(tlog'.line)
               => /\ EndorseMetrics' = <<EndorseTotal + 1, StampSeconds(tlog'.line)>>
                  /\ ProposeMetrics' = ProposeMetrics
          /\ ~HasPropose(tlog'.line) /\ ~HasEndorse(tlog'.line) => metrics' = metrics ]_vars

\* C7 witness: the two lines of the example have been read: one propose at T1, one
\* endorse at T2.
C7_ProposeThenEndorse ==
    /\ tcfg.CheckPropose /\ tcfg.CheckEndorse
    /\ ProposeMetrics = <<1, 1704067200>>
    /\ EndorseMetrics = <<1, 1704067201>>
    /\ tlog.line = <<"[", "T2", "]">> \o EndorseMarker \o <<NL>>

\* The relevant check of a marker line is on.
Checked(l) == IF HasPropose(l) THEN tcfg.CheckPropose ELSE HasEndorse(l) /\ tcfg.CheckEndorse

\* C8: a marker line whose leading timestamp is absent or does not parse is
\* counted exactly once, like a timestamped one; its "last" gauge gets a
\* wall-clock value no earlier than the process start; the line is consumed and
\* the follower does not return.
C8_FallbackTimestamp ==
    [][ Handed /\ ~WellFormedStamp(tlog'.line) /\ Checked(tlog'.line) =>
          /\ IF HasPropose(tlog'.line)
             THEN /\ ProposeTotal' = ProposeTotal + 1
                  /\ LastProposeTimestamp' = now /\ LastProposeTimestamp' >= ProcessStart
                  /\ EndorseMetrics' = EndorseMetrics
             ELSE /\ EndorseTotal' = EndorseTotal + 1
                  /\ LastEndorseTimestamp' = now /\ LastEndorseTimestamp' >= ProcessStart
                  /\ ProposeMetrics' = ProposeMetrics
          /\ toffset' = toffset + Len(tlog'.line)
          /\ tpc' # "done" ]_vars

\* C8 witness: a complete propose line with a malformed timestamp and a complete
\* endorse line with none have each been counted once, after the clock moved.
C8_CountedWithWallClock ==
    /\ tlog.line = EndorseMarker \o <<NL>>
    /\ tlog.counted
    /\ EndorseMetrics = <<1, now>>
    /\ ProposeTotal = 1 /\ LastProposeTimestamp \in ProcessStart..now
    /\ now > ProcessStart

(***************************************************************************)
(* Claims about the Supervisor.                                            *)
(***************************************************************************)
\* runStart has returned from g.Wait: all four tasks have returned.
Waited == spc = "done" /\ Len(slog) = Cardinality(Tasks)

\* The returns that carry an error, by their place in the order of returns.
Failures == { i \in 1..Len(slog) : slog[i].err # "nil" }

\* The fatal returns of an engine made while no signal had arrived.
EngineFatals ==
    { i \in Failures : slog[i].task \in Engines /\ slog[i].err # Canceled
                       /\ ~slog[i].signalled }

Earliest(S) == CHOOSE i \in S : \A j \in S : i <= j

\* C9 as stated: when an engine returns a fatal error and no signal has arrived,
\* the group's context is cancelled and runStart returns the first such error of
\* an engine.
C9_EngineErrorReturned ==
    /\ EngineFatals # {} => cancelled
    /\ Waited /\ EngineFatals # {} => sret = slog[Earliest(EngineFatals)].err

\* C9 amended: when an engine returns a fatal error and no signal has arrived, the
\* group's context is cancelled and runStart returns the first non-nil error that
\* any task of the group returned: the engine's fatal error when no other task
\* failed before it, else the error of the task that did (the HTTP listener); what
\* it returns is never nil and never context.Canceled.
C9_FirstErrorReturned ==
    /\ EngineFatals # {} => cancelled
    /\ Waited /\ EngineFatals # {} =>
         /\ sret = slog[Earliest(Failures)].err
         /\ sret \notin {"nil", "none", Canceled}
         /\ Earliest(Failures) \in EngineFatals
              => sret = slog[Earliest(EngineFatals)].err

\* C9 witness: the tracker failed first, with no signal; the tailer then returned
\* context.Canceled, the listener and the shutdown task returned, and runStart
\* returned the tracker's error.
C9_TrackerFailedFirst ==
    /\ Waited /\ ~signalled
    /\ slog[1].task = "tracker" /\ slog[1].err \in TrackerErrors
    /\ task["tailer"] = Canceled
    /\ sret = slog[1].err

\* The context was cancelled by the signal: no task had failed before it arrived.
StoppedBySignal == Failures # {} /\ \A i \in Failures : slog[i].signalled

NoEngineFailed == \A i \in Failures : slog[i].task \in Engines => slog[i].err = Canceled

\* C10 as stated: after a signal, with no failure in an engine, both engines return
\* context.Canceled and runStart returns nil, in whatever order the four tasks
\* return.
C10_ShutdownReturnsNil ==
    Waited /\ StoppedBySignal /\ NoEngineFailed =>
        /\ task["tracker"] = Canceled /\ task["tailer"] = Canceled
        /\ sret = "nil"

\* C10 amended: after a signal, with no failure in an engine, both engines return
\* context.Canceled, and runStart returns nil unless the listener task or
\* server.Shutdown returned an error before the first engine returned; it then
\* returns that error.  With no error from those two tasks it returns nil in
\* every order of the returns.
C10_ShutdownReturnsNilOrServerError ==
    Waited /\ StoppedBySignal /\ NoEngineFailed =>
        /\ task["tracker"] = Canceled /\ task["tailer"] = Canceled
        /\ sret = IF slog[Earliest(Failures)].task \in Engines
                  THEN "nil"
                  ELSE slog[Earliest(Failures)].err
        /\ task["listener"] = "nil" /\ task["shutdown"] = "nil" => sret = "nil"

\* C10 witness: after the signal the shutdown task returned nil first, then the
\* listener, then both engines with context.Canceled, and runStart returned nil.
C10_CleanShutdown ==
    /\ Waited /\ StoppedBySignal
    /\ slog[1].task = "shutdown" /\ slog[1].err = "nil"
    /\ slog[2].task = "listener" /\ slog[2].err = "nil"
    /\ task["tracker"] = Canceled /\ task["tailer"] = Canceled
    /\ sret = "nil"

(***************************************************************************)
(* Further claims about the Chain Poller.                                  *)
(***************************************************************************)
FetchFailed == perr \in TrackerErrors

\* The failure came from a fetch made for height h of a pass.
FailedInPass == perr \in {"fetch block proof failed", "fetch validators failed"}

NeverFetched(x) == plog.bp[x] = 0 /\ plog.vs[x] = 0

\* C11: a failed fetch ends BlockTracker.Start at once.  The step that fails
\* returns and leaves the cursor where it was; after the return no variable of
\* the poller changes, so no request follows and the call is not repeated; no
\* height above the failing one has been fetched, the failing request was issued
\* once, and the cursor still is where the pass found it.
C11_FetchFailureIsFinal ==
    /\ [](FetchFailed =>
            /\ ppc = "done"
            /\ \A x \in Heights :
                 x > (IF FailedInPass THEN h ELSE lastChecked) => NeverFetched(x)
            /\ FailedInPass =>
                 /\ lastChecked = plog.passFrom /\ lastChecked < h
                 /\ plog.bp[h] <= 1 /\ plog.vs[h] <= 1
                 /\ perr = "fetch block proof failed" => plog.vs[h] = 0)
    /\ [][ /\ FetchFailed' /\ ~FetchFailed => ppc' = "done" /\ lastChecked' = lastChecked
           /\ ppc = "done" => pvars' = pvars ]_vars

\* C11 witness: the block-proof fetch of the second height of a pass failed while
\* the tip was still ahead; Start has returned.
C11_FailedBelowTheTip ==
    /\ perr = "fetch block proof failed"
    /\ ppc = "done"
    /\ h = lastChecked + 2 /\ h < latest
    /\ plog.bp[h] = 1 /\ plog.bp[h - 1] = 1

\* The cursor that the tip read at startup asks for.
InitialCursor == IF plog.startTip > 0 THEN plog.startTip - 1 ELSE 0

\* The heights for which a fetch has been issued.
EverChecked == { x \in Heights : ~NeverFetched(x) }

SomeCheckEnabled == tracker.cfg.CheckBlockProof \/ tracker.cfg.CheckValidatorSet

\* The first pass has ended: nothing at or below its starting cursor was fetched.
FirstPassEnded == PassEnded /\ \A x \in 0..plog.passFrom : NeverFetched(x)

\* C15 as stated: whatever the tip at startup, 0 included, the first pass checks
\* exactly that tip block.
C15_FirstPassIsStartupTip ==
    FirstPassEnded /\ SomeCheckEnabled => EverChecked = {plog.startTip}

\* C15 amended: the cursor starts at the startup tip minus one, and at 0 when
\* that tip is 0; the first pass checks the heights from the cursor plus one to
\* the tip read at its own tick.  For a startup tip above 0 that is the startup
\* tip and every height the tip has moved since; for startup tip 0 it starts at
\* height 1, and height 0 is never checked.
C15_FirstPassFromStartupTip ==
    /\ NeverFetched(0)
    /\ FirstPassEnded /\ SomeCheckEnabled =>
         /\ plog.passFrom = InitialCursor
         /\ EverChecked = (InitialCursor + 1)..latest
         /\ plog.startTip > 0 => plog.startTip \in EverChecked
                                 /\ \A x \in EverChecked : x >= plog.startTip
         /\ plog.startTip > 0 /\ latest = plog.startTip => EverChecked = {plog.startTip}

\* C15 witness: the tip was 2 at startup and at the first tick; the first pass
\* has checked height 2 and nothing else.
C15_OnlyTheStartupTip ==
    /\ FirstPassEnded /\ SomeCheckEnabled
    /\ plog.startTip = 2 /\ latest = 2
    /\ EverChecked = {2}

\* Every fetch that the configuration asks for has been issued for height x, once.
FullyChecked(x) ==
    /\ tracker.cfg.CheckBlockProof => plog.bp[x] = 1
    /\ tracker.cfg.CheckValidatorSet => plog.vs[x] = 1

\* C17: without a fetch failure the heights are checked in ascending order from
\* the initial cursor plus one, one at a time and without gaps.  A height for
\* which a fetch has been issued lies above the initial cursor, and every height
\* between that cursor and it has all its checks behind it; the validator-set
\* fetch of a height follows its block-proof fetch; and every height above the
\* initial cursor up to the present cursor has been checked, whatever the tip
\* did between two ticks.
C17_AscendingWithoutGaps ==
    ~FetchFailed =>
        \A x \in Heights :
          /\ ~NeverFetched(x) =>
               /\ x > InitialCursor
               /\ \A y \in (InitialCursor + 1)..(x - 1) : FullyChecked(y)
               /\ plog.vs[x] > 0 => FullyChecked(x)
               /\ x <= h
          /\ InitialCursor < x /\ x <= lastChecked => FullyChecked(x)

\* C17 witness: with both checks on, a first pass of one height and then a pass
\* of two heights have ended; the three heights above the initial cursor are
\* checked.
C17_TwoPassesThreeHeights ==
    /\ PassEnded
    /\ tracker.cfg.CheckBlockProof /\ tracker.cfg.CheckValidatorSet
    /\ InitialCursor = 0 /\ plog.passFrom = 1 /\ lastChecked = 3
    /\ \A x \in 1..3 : FullyChecked(x)

\* C18: the cursor never decreases.  After the startup assignment it changes only
\* by lastChecked = latest at the end of a pass, with latest above the old
\* cursor and every height of the pass checked; a tip at or below the cursor
\* sends the poller to its idle sleep and leaves the cursor alone.
C18_CursorNeverDecreases ==
    [][ /\ lastChecked' >= lastChecked
        /\ ppc # "start" /\ lastChecked' # lastChecked =>
             /\ ppc = "advance"
             /\ lastChecked' = latest /\ latest > lastChecked
             /\ \A x \in (lastChecked + 1)..latest : FullyChecked(x)
        /\ ppc = "balance" /\ latest <= lastChecked =>
             /\ lastChecked' = lastChecked
             /\ ppc' # ppc => ppc' \in {"idle", "done"}
             /\ plog'.bp = plog.bp /\ plog'.vs = plog.vs ]_vars

\* C18 witness: the cursor has advanced by a pass, the endpoint then reported a
\* lower tip, and the poller sleeps with its cursor unchanged.
C18_TipBelowCursor ==
    /\ ppc = "idle"
    /\ latest < lastChecked
    /\ lastChecked > InitialCursor
    /\ FullyChecked(lastChecked) /\ SomeCheckEnabled


\* C19 as stated: after latest <= lastChecked the poller sleeps and then repeats
\* the tip query; after a scan it sets lastChecked = latest and the next thing
\* it does is the tip query, with no sleep in between.
C19_NoSleepAfterAdvance ==
    [][ /\ ppc = "balance" /\ latest <= lastChecked /\ ppc' # ppc =>
             ppc' \in {"idle", "done"}
        /\ ppc = "idle" /\ ppc' # ppc => ppc' \in {"tip", "done"}
        /\ ppc = "advance" /\ ppc' # ppc =>
             lastChecked' = latest /\ ppc' = "tip" ]_vars

\* C19: the idle wait as the code has it (part_005:132-137, 179-183).  A tip at
\* or below the cursor is followed by the sleep and then the tip query; a scan
\* is followed by lastChecked = latest, then by the same sleep, and only then
\* by the tip query: the tip is queried after the startup and after a sleep,
\* never straight after the cursor advance.
C19_SleepAfterEveryTick ==
    [][ /\ ppc = "balance" /\ latest <= lastChecked /\ ppc' # ppc =>
             ppc' \in {"idle", "done"}
        /\ ppc = "idle" /\ ppc' # ppc => ppc' \in {"tip", "done"}
        /\ ppc = "advance" /\ ppc' # ppc =>
             lastChecked' = latest /\ ppc' = "sleep"
        /\ ppc = "sleep" /\ ppc' # ppc => ppc' \in {"tip", "done"}
        /\ ppc' = "tip" /\ ppc # "tip" => ppc \in {"start", "idle", "sleep"} ]_vars

\* C19 witness: the first pass has set the cursor to the tip and the poller is in
\* the sleep that follows it, with no shutdown asked for.
C19_SleepingAfterFirstPass ==
    /\ ppc = "sleep"
    /\ ~cancelled
    /\ lastChecked = latest
    /\ plog.passFrom = InitialCursor
    /\ lastChecked = InitialCursor + 2
    /\ SomeCheckEnabled


\* The label the balance gauge carries: the configured address in lower case.
AddressLabel == ToLower(TrimSpace(tracker.cfg.MyAddress))

\* The statements of a tick that follow the balance refresh.
AfterBalance == ppc \in {"idle", "proof", "validators", "advance", "sleep"}

\* C20: the balance is fetched once per tick and not inside the per-height loop.
\* With an address configured every tick that got past its balance refresh has
\* issued exactly one balance fetch, however many heights it scans, and the
\* gauge holds a fetched value under the lowercased address; with no address
\* configured no balance fetch is issued and the gauge is never set.  The fetch
\* count and the gauge change only between the tip query and the branch.
C20_OneBalanceFetchPerTick ==
    /\ [](/\ plog.bal <= 1
          /\ tracker.cfg.MyAddress = <<>> => plog.bal = 0 /\ AddressBalanceETH = <<>>
          /\ tracker.cfg.MyAddress # <<>> /\ AfterBalance =>
               plog.bal = 1 /\ AddressBalanceETH # <<>>
          /\ AddressBalanceETH # <<>> =>
               /\ AddressBalanceETH[1] = AddressLabel
               /\ AddressBalanceETH[2] \in Balances)
    /\ [][ /\ plog'.bal > plog.bal => ppc = "balance" /\ plog'.bal = plog.bal + 1
           /\ plog'.bal < plog.bal => ppc = "tip"
           /\ AddressBalanceETH' # AddressBalanceETH =>
                ppc = "balance" /\ plog'.bal = plog.bal + 1 ]_vars

\* C20 witness: a tick with an address configured is at the second height of its
\* loop and has fetched the balance once.
C20_SecondHeightOneFetch ==
    /\ tracker.cfg.MyAddress # <<>>
    /\ ppc = "validators"
    /\ h = lastChecked + 2
    /\ plog.bal = 1
    /\ AddressBalanceETH = <<AddressLabel, 1>>


(***************************************************************************)
(* Further claims about the Supervisor and the constructors.               *)
(***************************************************************************)
\* The errors of the configuration checks: cmd/start.go:37-39, part_005:65-70,
\* part_005:82, log.go:38-40.
ConstructionErrors ==
    {"log-path is required", "rpc url is required",
     "my bls key is required when check block proof is enabled",
     "invalid my-address: expected 0x + 40 hex chars", "log path is required"}

NoTaskStarted == \A t \in Tasks : task[t] = "idle"

\* The flags pass every check of runStart and of the two constructors.
Constructible(a) ==
    /\ a.LogPath # <<>>
    /\ NewBlockTracker(TrackerConfigOf(a)).err = "nil"
    /\ NewLogTailer(a.LogPath) = "nil"

\* C16: a configuration error is returned before any engine task is started.
\* When runStart has returned one of the construction errors no task of the
\* group was ever started; a task is started only under flags that pass every
\* check; and flags that fail a check make runStart return that error.
C16_ConfigErrorBeforeAnyTask ==
    /\ spc = "done" /\ sret \in ConstructionErrors => NoTaskStarted /\ slog = <<>>
    /\ ~NoTaskStarted => Constructible(sargs)
    /\ spc = "done" /\ ~Constructible(sargs) => sret \in ConstructionErrors
    /\ spc = "done" /\ sargs.LogPath = <<>> => sret = "log-path is required"
    /\ spc = "done" /\ sargs.LogPath # <<>> /\ sargs.RPCURL = <<>> =>
         sret = "rpc url is required"

\* C16 witness: with a log path and an RPC URL given, block-proof checking on and
\* no BLS key, runStart has returned the constructor's error.
C16_MissingKeyReturned ==
    /\ spc = "done"
    /\ sargs.LogPath # <<>> /\ sargs.RPCURL # <<>>
    /\ sargs.CheckBlockProof /\ sargs.MyBlsKey = <<>>
    /\ sret = "my bls key is required when check block proof is enabled"
    /\ NoTaskStarted

IsHexChar(c) ==
    c \in {"0", "1", "2", "3", "4", "5", "6", "7", "8", "9", "a", "b", "c", "d", "e", "f"}

\* An address of the shape 0x + 40 hexadecimal characters, in either case.
WellFormedAddress(s) ==
    LET t == ToLower(s)
    IN  /\ HasPrefix(t, <<"0", "x">>)
        /\ Len(t) = AddrLen
        /\ \A i \in 3..Len(t) : IsHexChar(t[i])

\* C13: NewBlockTracker returns a tracker only for an absent address or one of
\* the shape 0x + 40 hexadecimal characters; every other address makes runStart
\* return the invalid-address error at construction, before the tracker's task
\* is started.
C13_MalformedAddressRejected ==
    /\ tracker # NotConstructed =>
         sargs.MyAddress = <<>> \/ WellFormedAddress(sargs.MyAddress)
    /\ /\ spc = "done"
       /\ sargs.LogPath # <<>> /\ sargs.RPCURL # <<>>
       /\ ~(sargs.CheckBlockProof /\ sargs.MyBlsKey = <<>>)
       /\ sargs.MyAddress # <<>> /\ ~WellFormedAddress(sargs.MyAddress)
       => sret = "invalid my-address: expected 0x + 40 hex chars" /\ NoTaskStarted


(***************************************************************************)
(* Further claims about the Log Follower.                                  *)
(***************************************************************************)
\* The position just after the last newline of c, 0 when c has none.
RECURSIVE LastNewline(_)
LastNewline(c) ==
    IF c = <<>> \/ c[Len(c)] = NL THEN Len(c) ELSE LastNewline(SubSeq(c, 1, Len(c) - 1))

\* The follower has opened the file (log.go:60-72).
Opened == tpc \in {"loop", "rotcheck", "sleep"}

\* The bytes of the complete lines that were in the file when it was opened.
PresentAtOpen == SubSeq(files[tfile], 1, LastNewline(SubSeq(files[tfile], 1, tlog.opened)))

\* The follower stands at the beginning of a line.
AtLineStart == toffset = 0 \/ files[tfile][toffset] = NL

\* C14: the start position.  The open puts the offset at 0 when the flag is set
\* and at the end of the file when it is not.  With the flag set the lines that
\* were complete in the file at the open are handed over whole, one by one from
\* the first byte on in file order, and all of them are behind the follower when
\* it has reached the end of the file.  With the flag unset nothing that was in
\* the file at the open is ever handed over: every line given to the extractor
\* lies wholly behind the end the file had at the open, so an event comes only
\* from bytes appended afterwards.
C14_StartPosition ==
    /\ [](Opened =>
            /\ tcfg.FromStart /\ toffset < Len(PresentAtOpen) => AtLineStart
            /\ tcfg.FromStart /\ tpc \in {"rotcheck", "sleep"} => toffset >= tlog.opened
            /\ ~tcfg.FromStart => toffset >= tlog.opened)
    /\ [][ /\ tpc = "open" /\ tpc' = "loop" =>
                /\ toffset' = (IF tcfg.FromStart THEN 0 ELSE Len(files[pathIno]))
                /\ tpos' = toffset'
                /\ tlog'.opened = Len(files[pathIno])
           /\ Handed =>
                /\ tlog'.line = SubSeq(files[tfile], toffset + 1, toffset')
                /\ ~tcfg.FromStart => toffset >= tlog.opened
                /\ tcfg.FromStart /\ toffset < Len(PresentAtOpen) =>
                     /\ EndsWithNewline(tlog'.line)
                     /\ IndexByte(tlog'.line, NL) = Len(tlog'.line) - 1
                     /\ toffset' <= Len(PresentAtOpen) ]_vars

\* C14 witness: the flag is unset, the file held a complete marker line when it
\* was opened, a marker line was appended afterwards, and the follower has
\* counted one event, for the appended line.
C14_OnlyTheAppendedLine ==
    /\ Opened /\ ~tcfg.FromStart
    /\ tcfg.CheckPropose /\ tcfg.CheckEndorse
    /\ MarkerLineCount(PresentAtOpen) = 1
    /\ Len(PresentAtOpen) = tlog.opened
    /\ MarkerLineCount(files[tfile]) = 2
    /\ toffset = Len(files[tfile])
    /\ tlog.events = 1 /\ tlog.counted


(***************************************************************************)
(* Claims about the normalizer.                                            *)
(***************************************************************************)
Has0xPrefix(s) == HasPrefix(s, <<"0", "x">>) \/ HasPrefix(s, <<"0", "X">>)

\* What a key of this body normalizes to: the body, or its last KeyHexLen
\* characters when it is longer and of even length.
Canonical(body) ==
    IF Len(body) > KeyHexLen /\ Len(body) % 2 = 0
    THEN SubSeq(body, Len(body) - KeyHexLen + 1, Len(body))
    ELSE body

\* C12 as stated: normalizing twice gives what normalizing once gives, for
\* every text; and every encoding of a key normalizes to what the plain
\* lower-case key normalizes to.
C12_IdempotentOnEveryText ==
    /\ Len(nres) = MaxApply => nres[2] = nres[1]
    /\ nbody # NoKey /\ nres # <<>> => nres[1] = normalizeBlsKey(nbody)

\* C12: normalization is case- and prefix-insensitive and is idempotent on keys.
\* Every encoding of a key (hex digits, in either case, with or without one
\* prefix 0x or 0X, with or without white space around it) normalizes to the
\* value the plain lower-case key normalizes to, and normalizing that value
\* again leaves it as it is.  For any other text the second normalization
\* leaves the first result as it is unless that result itself begins with 0x
\* or 0X or begins or ends with white space.
C12_IdempotentOnKeys ==
    /\ nbody # NoKey /\ nres # <<>> =>
         /\ nres[1] = normalizeBlsKey(nbody)
         /\ nres[1] = Canonical(nbody)
    /\ nbody # NoKey /\ Len(nres) = MaxApply => nres[2] = nres[1]
    /\ Len(nres) = MaxApply /\ ~Has0xPrefix(nres[1]) /\ TrimSpace(nres[1]) = nres[1] =>
         nres[2] = nres[1]

\* C12 witness: a key longer than KeyHexLen, written in upper case with the prefix
\* 0X and white space around it, has been normalized twice.
C12_UpperCaseLongKeyTwice ==
    /\ nbody = <<"f", "f">> \o TrackedBody
    /\ nkey = <<" ", "0", "X">> \o ToUpper(nbody) \o <<" ">>
    /\ Len(nres) = MaxApply
    /\ nres[2] = TrackedBody


(***************************************************************************)
(* Claims about the gating of the two chain checks.                        *)
(***************************************************************************)
VoteMetrics == <<VoteInclusionTotal, VoteInclusionTimestamp>>
ActiveMetrics == <<ActiveTotal, ActiveTimestamp>>

\* C21: the two checks are gated independently.  With block-proof checking off
\* no block-proof fetch is issued and the vote-inclusion counter and timestamp
\* keep their first values, and the step for a height goes on to its
\* validator-set check; with validator-set checking off no validator-set fetch
\* is issued and the active counter and timestamp keep their first values.  A
\* check that is on issues its fetch for the height.  An empty list for a height
\* is no error: unless the fetch itself fails the poller goes on with the
\* height's counter unchanged.
C21_ChecksGatedIndependently ==
    /\ [](/\ ~tracker.cfg.CheckBlockProof =>
               /\ \A x \in Heights : plog.bp[x] = 0
               /\ VoteMetrics = <<0, 0>>
          /\ ~tracker.cfg.CheckValidatorSet =>
               /\ \A x \in Heights : plog.vs[x] = 0
               /\ ActiveMetrics = <<0, 0>>)
    /\ [][ /\ ppc = "proof" /\ ppc' # ppc =>
                /\ plog'.bp[h] = plog.bp[h] + (IF tracker.cfg.CheckBlockProof THEN 1 ELSE 0)
                /\ plog'.vs = plog.vs /\ ActiveMetrics' = ActiveMetrics
                /\ ~tracker.cfg.CheckBlockProof => ppc' = "validators" /\ h' = h
                /\ SignedBlsKeys(h) = <<>> =>
                     /\ VoteMetrics' = VoteMetrics
                     /\ ppc' = "validators" \/ perr' = "fetch block proof failed"
           /\ ppc = "validators" /\ ppc' # ppc =>
                /\ plog'.vs[h] = plog.vs[h] + (IF tracker.cfg.CheckValidatorSet THEN 1 ELSE 0)
                /\ plog'.bp = plog.bp /\ VoteMetrics' = VoteMetrics
                /\ ~tracker.cfg.CheckValidatorSet => h' = h + 1 /\ ppc' \in {"proof", "advance"}
                /\ ValidatorSet(h) = <<>> =>
                     /\ ActiveMetrics' = ActiveMetrics
                     /\ h' = h + 1 \/ perr' = "fetch validators failed" ]_vars

\* C21 witness: with block-proof checking off and validator-set checking on, a
\* pass over heights 1 to 3 has ended; height 3 had an empty validator set, the
\* key was active at height 1, and no block proof was fetched.
C21_OnlyValidatorSets ==
    /\ ~tracker.cfg.CheckBlockProof /\ tracker.cfg.CheckValidatorSet
    /\ PassEnded /\ lastChecked = 3 /\ InitialCursor = 0
    /\ ValidatorSet(3) = <<>>
    /\ \A x \in 1..3 : plog.vs[x] = 1 /\ plog.bp[x] = 0
    /\ ActiveTotal >= 1 /\ VoteInclusionTotal = 0


(***************************************************************************)
(* Claims about the rotation check and the cursor of the Log Follower.     *)
(***************************************************************************)
\* The step returned no error from Start.
NoError == terr' = terr

\* C22: the rotation check.  It is entered only from a read that reached the end
\* of the stream.  When the inode at the path differs from the tracked one, or
\* the size at the path is below the tracked offset, the handle is closed and
\* the path is opened again, with offset 0 and the inode it has then, and the
\* next thing is a read; otherwise the follower sleeps and then reads from the
\* same handle, inode and offset as they were.  (A Stat or an open that fails
\* ends Start with its error.)
C22_RotationCheck ==
    /\ [](tpc = "reopen" => tfile = 0)
    /\ [][ /\ tpc' = "rotcheck" /\ tpc # "rotcheck" => tpc = "loop" /\ ReadBytes.eof
           /\ tpc = "loop" /\ NoError /\ ~ReadBytes.eof => tpc' = "loop"
           /\ tpc = "rotcheck" /\ tpc' # tpc /\ NoError =>
                IF pathIno # tinode \/ Len(files[pathIno]) < toffset
                THEN tfile' = 0 /\ tpc' = "reopen"
                ELSE tpc' = "sleep" /\ UNCHANGED <<tfile, tinode, toffset, tpos, tbuf>>
           /\ tpc = "reopen" /\ tpc' # tpc /\ NoError =>
                /\ tpc' = "loop"
                /\ toffset' = 0 /\ tpos' = 0 /\ tbuf' = <<>>
                /\ tfile' = pathIno /\ tinode' = pathIno
           /\ tpc = "sleep" /\ tpc' # tpc /\ NoError =>
                tpc' = "loop" /\ UNCHANGED <<tfile, tinode, toffset, tpos, tbuf>> ]_vars

\* C22 witness: the file was truncated in place below the offset; the follower
\* has opened the same inode again and stands at offset 0, about to read.
C22_ReopenedAfterTruncation ==
    /\ tlog.rotated /\ tpc = "loop" /\ ~cancelled
    /\ toffset = 0 /\ tfile = 1 /\ tinode = 1 /\ pathIno = 1
    /\ Len(files) = 1


\* The offset the follower had when it opened the file it reads now: 0 after a
\* reopen and with -log-from-start, the end of the file otherwise.
InitialOffset == IF tlog.rotated \/ tcfg.FromStart THEN 0 ELSE tlog.opened

\* C23: the cursor of the follower.  The offset is always the initial offset of
\* the current file plus the bytes consumed from it.  It is set by the first
\* open; after that it is lowered only by a reopen, which sets it to 0 and is
\* made only when the rotation check found another inode or a size below the
\* offset; every other change is a read that adds the length of the line it
\* consumed.
C23_LogCursor ==
    /\ [](toffset = InitialOffset + tlog.consumed)
    /\ [][ /\ toffset' < toffset => tpc = "reopen" /\ toffset' = 0
           /\ tpc = "reopen" /\ tpc' = "loop" => toffset' = 0 /\ tlog'.consumed = 0
           /\ tpc' = "reopen" /\ tpc # "reopen" =>
                /\ tpc = "rotcheck"
                /\ pathIno # tinode \/ Len(files[pathIno]) < toffset
           /\ toffset' > toffset =>
                \/ tpc = "open" /\ ~tcfg.FromStart /\ toffset' = Len(files[pathIno])
                \/ /\ tpc = "loop"
                   /\ toffset' = toffset + Len(ReadBytes.line)
                   /\ tlog'.consumed = tlog.consumed + Len(ReadBytes.line)
                   /\ tlog'.line = ReadBytes.line ]_vars

\* C23 witness: the follower started at the end of a file that was not empty, was
\* sent to a new file by a rotation, and has consumed a line of the new file.
C23_ConsumedAfterRotation ==
    /\ ~tcfg.FromStart /\ tlog.opened > 0
    /\ tlog.rotated /\ tinode = 2
    /\ tlog.consumed > 0 /\ toffset = tlog.consumed
    /\ toffset <= tlog.opened


\* The follower is in its opening loop (log.go:60-72).
Opening == tpc \in {"open", "opensleep"}

\* C24: the opening phase.  While the file is absent an open attempt is followed
\* by the sleep and the sleep by the next attempt, with no error.  The phase is
\* left only by an open that succeeds, by the cancellation that ends the sleep,
\* or by an error of open or stat that is not "not found".  If from some time on
\* the file is at the path, the context is never cancelled and open does not
\* fail, the follower gets to its read loop.
C24_OpeningPhase ==
    /\ [][ /\ tpc = "open" /\ pathIno = 0 /\ tpc' # tpc =>
                tpc' = "opensleep" /\ terr' = terr /\ tfile' = 0
           /\ tpc = "opensleep" /\ tpc' # tpc /\ ~cancelled => tpc' = "open" /\ terr' = terr
           /\ Opening /\ ~Opening' =>
                \/ /\ tpc = "open" /\ pathIno # 0
                   /\ tpc' = "loop" /\ tfile' = pathIno /\ terr' = terr
                \/ /\ tpc = "opensleep" /\ cancelled
                   /\ tpc' = "done" /\ terr' = "context canceled"
                \/ /\ tpc = "open" /\ pathIno # 0
                   /\ tpc' = "done" /\ terr' = "open failed" ]_vars
    /\ (<>[](pathIno # 0) /\ []~cancelled /\ [](terr # "open failed")) => <>(tpc = "loop")

\* C24 witness: the follower found no file and sleeps; the file has appeared in
\* the meantime and holds bytes, and nothing was cancelled.
C24_FileAppearedDuringSleep ==
    /\ tpc = "opensleep" /\ ~cancelled /\ terr = "running"
    /\ pathIno = 1 /\ files[1] # <<>>


C26_OneEventPerLine ==
    /\ [](ProposeTotal + EndorseTotal <= written)
    /\ [][ Handed =>
             /\ ProposeTotal' = ProposeTotal \/ EndorseTotal' = EndorseTotal
             /\ ProposeTotal' + EndorseTotal' <= ProposeTotal + EndorseTotal + 1
             /\ HasPropose(tlog'.line) => EndorseMetrics' = EndorseMetrics ]_vars


(***************************************************************************)
(* Claims about rotation and truncation.                                   *)
(***************************************************************************)
\* The follower reads the second file at the path, to which a rename of the
\* first one has sent it.
SwitchedToNewFile ==
    /\ tlog.rotated /\ tinode = 2 /\ tfile = 2
    /\ tpc \in {"loop", "rotcheck", "sleep"}

\* C27: no line is lost across a rotation.  When the follower, started at the
\* first byte of the first file, has switched to the new file, and every line
\* written is still in the file it was written to, then every line of the old
\* file has produced its event, once: the events counted before the switch are
\* as many as the old file has lines.
C27_NoLineLostAcrossRotation ==
    tcfg.FromStart /\ NothingTruncated /\ SwitchedToNewFile =>
        ProposeTotal + EndorseTotal - tlog.events = MarkerLineCount(files[1])


\* C28: after a truncation in place the follower restarts at offset 0 of the
\* new content.  A rotation check made on a file that was truncated while the
\* follower had it open, written again or not and whatever its size by then,
\* sends the follower to the reopen, unless its offset is 0 already; and a
\* follower that sleeps after such a check has given every line of the file's
\* first toffset bytes to Update, so the last line it gave is in the file,
\* ending at the offset.
C28_RestartAfterTruncation ==
    /\ [][ /\ tpc = "rotcheck" /\ tlog.cut /\ tinode = pathIno
           /\ NoError /\ tpc' # tpc
           => tpc' = "reopen" \/ toffset = 0 ]_vars
    /\ [][ /\ tpc = "rotcheck" /\ tpc' = "sleep" /\ toffset > 0
           => /\ toffset <= Len(files[tfile])
              /\ tlog.line = SubSeq(files[tfile], toffset - Len(tlog.line) + 1, toffset) ]_vars
====
